---- MODULE Spec2Model ----
(***************************************************************************)
(* Model of src/main.cpp: linear search, the unbalanced search tree (BST), *)
(* the red-black tree (RBTree), the chained hash table (HashTable) and the *)
(* benchmark harness (main).                                               *)
(*                                                                         *)
(* Heap objects are numbered in allocation order (node 1 is the first node *)
(* a structure allocated); the null pointer is NIL.  A reference to a      *)
(* Passenger is its position in the vector that owns it (1-based here,     *)
(* 0-based in the code).  A std::string is the sequence of its character   *)
(* codes.                                                                  *)
(***************************************************************************)
EXTENDS Integers, Sequences, FiniteSets, TLC

\* ------------------------------------------------------------------ bounds
MaxKey     == 4    \* names in the pool of the unit client
MaxLen     == 4    \* records in a dataset of the unit client
MaxBuckets == 2    \* largest bucket count the unit client constructs
MaxKeyRB   == 6    \* names the red-black client draws from
MaxIns     == 6    \* inserts of the red-black client
MaxFresh   == 8    \* names (and so inserts) of the fresh-key client
NumSizes   == 3    \* sizes main's loop runs over
MaxPool    == 3    \* names makeData draws from
MaxAsc     == 1023 \* inserts of the ascending client

NIL   == 0
RED   == "RED"
BLACK == "BLACK"

Min(a, b) == IF a < b THEN a ELSE b
Max(a, b) == IF a < b THEN b ELSE a

\* ----------------------------------------------------------------- strings
\* A pool of distinct lower-case names of length 1 and 2 whose pool order is
\* not their lexicographic order: b, c, aa, ba, ca, ab, bb, ...
KeyStr(i) ==
    <<97 + (i % 3)>> \o (IF i \div 3 = 0 THEN << >> ELSE <<97 + (i \div 3) - 1>>)

Keys == {KeyStr(i) : i \in 1..MaxKey}

\* std::string operator== and operator< (lexicographic, shorter prefix first)
StrEq(s, t) == s = t

StrLess(s, t) ==
    LET n    == Min(Len(s), Len(t))
        diff == {j \in 1..n : s[j] # t[j]}
    IN  IF diff = {}
        THEN Len(s) < Len(t)
        ELSE LET j == CHOOSE m \in diff : \A q \in diff : m <= q
             IN  s[j] < t[j]

VARIABLES
    data,      \* the vector of Passenger the structures refer into
    bst,       \* the BST object
    rbt,       \* the RBTree object
    ht,        \* the HashTable object
    nb, nr, nh,\* how many records of data went into bst, rbt, ht
    found,     \* what the last search call returned
    rpc, rz,   \* position inside RBTree::insert / fixInsert and its z
    mpc,       \* position of main
    mit,       \* index into sizes of main's for loop
    mkey,      \* main's key
    mj,        \* position of the range-for that fills a structure
    live,      \* the locals of the loop body that are alive, in construction order
    mp,        \* the std::multimap of the loop body
    rows,      \* main's rows vector
    csv,       \* the std::ofstream: state and what reached the file
    out,       \* what main wrote to std::cout
    ret        \* what main returned, "none" while it runs

vars == <<data, bst, rbt, ht, nb, nr, nh, found, rpc, rz,
          mpc, mit, mkey, mj, live, mp, rows, csv, out, ret>>

\* ------------------------------------------------------------ linearSearch
RECURSIVE linearSearchFrom(_, _, _)
linearSearchFrom(arr, key, i) ==
    IF i > Len(arr) THEN << >>
    ELSE (IF StrEq(arr[i].fullName, key) THEN <<i>> ELSE << >>)
         \o linearSearchFrom(arr, key, i + 1)

linearSearch(arr, key) == linearSearchFrom(arr, key, 1)

\* --------------------------------------------------------------------- BST
EmptyBST == [root |-> NIL, key |-> << >>, payload |-> << >>,
             left |-> << >>, right |-> << >>]

\* new BSTNode{name}: empty payload, null children
BSTNew(t, name) ==
    [t EXCEPT !.key = Append(@, name), !.payload = Append(@, << >>),
              !.left = Append(@, NIL), !.right = Append(@, NIL)]

RECURSIVE BSTinsertLoop(_, _, _, _)
BSTinsertLoop(t, cur, arr, p) ==
    LET name == arr[p].fullName IN
    IF StrEq(name, t.key[cur])
    THEN [t EXCEPT !.payload[cur] = Append(@, p)]
    ELSE IF StrLess(name, t.key[cur])
    THEN IF t.left[cur] = NIL
         THEN LET t1 == BSTNew(t, name)
                  n  == Len(t1.key)
              IN  BSTinsertLoop([t1 EXCEPT !.left[cur] = n], n, arr, p)
         ELSE BSTinsertLoop(t, t.left[cur], arr, p)
    ELSE IF t.right[cur] = NIL
         THEN LET t1 == BSTNew(t, name)
                  n  == Len(t1.key)
              IN  BSTinsertLoop([t1 EXCEPT !.right[cur] = n], n, arr, p)
         ELSE BSTinsertLoop(t, t.right[cur], arr, p)

BSTinsert(t, arr, p) ==
    IF t.root = NIL
    THEN LET t1 == BSTNew(t, arr[p].fullName)
         IN  [t1 EXCEPT !.root = 1, !.payload[1] = <<p>>]
    ELSE BSTinsertLoop(t, t.root, arr, p)

\* BSTsearchFrom with the comparison of line 99 turned round
RECURSIVE BSTsearchFromSwapped(_, _, _)
BSTsearchFromSwapped(t, cur, key) ==
    IF cur = NIL THEN << >>
    ELSE IF StrEq(key, t.key[cur]) THEN t.payload[cur]
    ELSE BSTsearchFromSwapped(t, IF StrLess(t.key[cur], key) THEN t.left[cur]
                                                          ELSE t.right[cur], key)

RECURSIVE BSTsearchFrom(_, _, _)
BSTsearchFrom(t, cur, key) ==
    IF cur = NIL THEN << >>
    ELSE IF StrEq(key, t.key[cur]) THEN t.payload[cur]
    ELSE BSTsearchFrom(t, IF StrLess(key, t.key[cur]) THEN t.left[cur]
                                                   ELSE t.right[cur], key)

BSTsearch(t, key) == BSTsearchFrom(t, t.root, key)

\* ------------------------------------------------------------------ RBTree
\* ub records that the code dereferenced a null pointer (undefined behaviour);
\* once set the object is left as it was and the run is over.
EmptyRBT == [root |-> NIL, key |-> << >>, payload |-> << >>, color |-> << >>,
             parent |-> << >>, left |-> << >>, right |-> << >>, ub |-> FALSE]

Crash(t) == [t EXCEPT !.ub = TRUE]

rotateLeft(t, x) ==
    LET y == t.right[x] IN
    IF y = NIL THEN Crash(t)
    ELSE LET yl == t.left[y]
             xp == t.parent[x]
             t1 == [t EXCEPT !.right[x] = yl]
             t2 == IF yl # NIL THEN [t1 EXCEPT !.parent[yl] = x] ELSE t1
             t3 == [t2 EXCEPT !.parent[y] = xp]
             t4 == IF xp = NIL THEN [t3 EXCEPT !.root = y]
                   ELSE IF x = t3.left[xp] THEN [t3 EXCEPT !.left[xp] = y]
                   ELSE [t3 EXCEPT !.right[xp] = y]
         IN  [t4 EXCEPT !.left[y] = x, !.parent[x] = y]

rotateRight(t, y) ==
    LET x == t.left[y] IN
    IF x = NIL THEN Crash(t)
    ELSE LET xr == t.right[x]
             yp == t.parent[y]
             t1 == [t EXCEPT !.left[y] = xr]
             t2 == IF xr # NIL THEN [t1 EXCEPT !.parent[xr] = y] ELSE t1
             t3 == [t2 EXCEPT !.parent[x] = yp]
             t4 == IF yp = NIL THEN [t3 EXCEPT !.root = x]
                   ELSE IF y = t3.left[yp] THEN [t3 EXCEPT !.left[yp] = x]
                   ELSE [t3 EXCEPT !.right[yp] = x]
         IN  [t4 EXCEPT !.right[x] = y, !.parent[y] = x]

\* the condition of fixInsert's while
fixCond(t, z) == t.parent[z] # NIL /\ t.color[t.parent[z]] = RED

\* which branch one pass of the loop body takes at (t, z)
fixCase(t, z) ==
    LET zp == t.parent[z]
        g  == t.parent[zp]
    IN  IF g = NIL THEN "null"
        ELSE LET y == IF zp = t.left[g] THEN t.right[g] ELSE t.left[g]
             IN  IF y # NIL /\ t.color[y] = RED THEN "recolor" ELSE "rotate"

\* fixRotateTop without the assignment of line 175 / 191
fixRotateTopGrandparentAsIs(t, z, toRight) ==
    LET zp == t.parent[z] IN
    IF zp = NIL THEN Crash(t)
    ELSE LET g == t.parent[zp] IN
         IF g = NIL THEN Crash(t)
         ELSE LET t1 == [t EXCEPT !.color[zp] = BLACK]
              IN  IF toRight THEN rotateRight(t1, g) ELSE rotateLeft(t1, g)

\* lines 174-176 / 190-192: recolour z's parent and grandparent, rotate at the
\* grandparent (rightwards when toRight)
fixRotateTop(t, z, toRight) ==
    LET zp == t.parent[z] IN
    IF zp = NIL THEN Crash(t)
    ELSE LET g == t.parent[zp] IN
         IF g = NIL THEN Crash(t)
         ELSE LET t1 == [t EXCEPT !.color[zp] = BLACK, !.color[g] = RED]
              IN  IF toRight THEN rotateRight(t1, g) ELSE rotateLeft(t1, g)

\* one pass of the body of fixInsert's while, entered with fixCond(t, z)
fixBody(t, z) ==
    LET zp == t.parent[z]
        g  == t.parent[zp]
    IN
    IF g = NIL THEN [t |-> Crash(t), z |-> z]
    ELSE IF zp = t.left[g]
    THEN LET y == t.right[g] IN
         IF y # NIL /\ t.color[y] = RED
         THEN [t |-> [t EXCEPT !.color[zp] = BLACK, !.color[y] = BLACK,
                               !.color[g] = RED],
               z |-> g]
         ELSE IF z = t.right[zp]
              THEN LET t1 == rotateLeft(t, zp) IN
                   IF t1.ub THEN [t |-> t1, z |-> zp]
                   ELSE [t |-> fixRotateTop(t1, zp, TRUE), z |-> zp]
              ELSE [t |-> fixRotateTop(t, z, TRUE), z |-> z]
    ELSE LET y == t.left[g] IN
         IF y # NIL /\ t.color[y] = RED
         THEN [t |-> [t EXCEPT !.color[zp] = BLACK, !.color[y] = BLACK,
                               !.color[g] = RED],
               z |-> g]
         ELSE IF z = t.left[zp]
              THEN LET t1 == rotateRight(t, zp) IN
                   IF t1.ub THEN [t |-> t1, z |-> zp]
                   ELSE [t |-> fixRotateTop(t1, zp, FALSE), z |-> zp]
              ELSE [t |-> fixRotateTop(t, z, FALSE), z |-> z]

\* fixFinish without the assignment of line 196
fixFinishRootAsIs(t) == t

\* line 196, after the loop
fixFinish(t) == [t EXCEPT !.color[t.root] = BLACK]

\* fixInsert without its loop
fixInsertNoLoop(t, z) == [t EXCEPT !.color[t.root] = BLACK]

RECURSIVE fixInsert(_, _)
fixInsert(t, z) ==
    IF t.ub THEN t
    ELSE IF fixCond(t, z)
    THEN LET s == fixBody(t, z) IN fixInsert(s.t, s.z)
    ELSE fixFinish(t)

\* RBTdescend without the test of line 213
RECURSIVE RBTdescendNoMatch(_, _, _, _)
RBTdescendNoMatch(t, y, x, name) ==
    IF x = NIL THEN [hit |-> FALSE, y |-> y]
    ELSE RBTdescendNoMatch(t, x, IF StrLess(name, t.key[x]) THEN t.left[x]
                                                          ELSE t.right[x], name)

\* the descent of RBTree::insert (lines 209-218): the node holding name, or
\* the node the search fell off (NIL in the empty tree)
RECURSIVE RBTdescend(_, _, _, _)
RBTdescend(t, y, x, name) ==
    IF x = NIL THEN [hit |-> FALSE, y |-> y]
    ELSE IF StrEq(name, t.key[x]) THEN [hit |-> TRUE, y |-> x]
    ELSE RBTdescend(t, x, IF StrLess(name, t.key[x]) THEN t.left[x]
                                                   ELSE t.right[x], name)

\* lines 219-226: allocate z red, link it under y
RBTlink(t, y, arr, p) ==
    LET name == arr[p].fullName
        z    == Len(t.key) + 1
        t1   == [t EXCEPT !.key = Append(@, name), !.payload = Append(@, <<p>>),
                          !.color = Append(@, RED), !.parent = Append(@, y),
                          !.left = Append(@, NIL), !.right = Append(@, NIL)]
    IN  IF y = NIL THEN [t1 EXCEPT !.root = z]
        ELSE IF StrLess(name, t.key[y]) THEN [t1 EXCEPT !.left[y] = z]
        ELSE [t1 EXCEPT !.right[y] = z]

RBTinsert(t, arr, p) ==
    LET d == RBTdescend(t, NIL, t.root, arr[p].fullName) IN
    IF d.hit THEN [t EXCEPT !.payload[d.y] = Append(@, p)]
    ELSE fixInsert(RBTlink(t, d.y, arr, p), Len(t.key) + 1)

RECURSIVE RBTsearchFrom(_, _, _)
RBTsearchFrom(t, cur, key) ==
    IF cur = NIL THEN << >>
    ELSE IF StrEq(key, t.key[cur]) THEN t.payload[cur]
    ELSE RBTsearchFrom(t, IF StrLess(key, t.key[cur]) THEN t.left[cur]
                                                   ELSE t.right[cur], key)

RBTsearch(t, key) == RBTsearchFrom(t, t.root, key)

\* --------------------------------------------------------------- HashTable
RECURSIVE hashFold(_, _, _, _)
hashFold(s, i, h, mod) ==
    IF i > Len(s) THEN h ELSE hashFold(s, i + 1, (h * 31 + s[i]) % mod, mod)

\* h in 0 .. mod-1; bucket idx of the code is table[hashStr + 1] here
hashStr(s, mod) == hashFold(s, 1, 0, mod)

HashTableNew(nBuckets) ==
    [table |-> [b \in 1..nBuckets |-> NIL], collisions |-> 0,
     key |-> << >>, payload |-> << >>, next |-> << >>]

\* new Bucket{name} followed by payload.push_back(&p)
HTNew(t, name, p) ==
    [t EXCEPT !.key = Append(@, name), !.payload = Append(@, <<p>>),
              !.next = Append(@, NIL)]

\* HTinsertLoop without the test of line 285
RECURSIVE HTinsertLoopNoMatch(_, _, _, _, _)
HTinsertLoopNoMatch(t, prev, cur, arr, p) ==
    IF cur = NIL
    THEN LET t1 == HTNew(t, arr[p].fullName, p)
         IN  [t1 EXCEPT !.next[prev] = Len(t1.key)]
    ELSE HTinsertLoopNoMatch(t, cur, t.next[cur], arr, p)

RECURSIVE HTinsertLoop(_, _, _, _, _)
HTinsertLoop(t, prev, cur, arr, p) ==
    IF cur = NIL
    THEN LET t1 == HTNew(t, arr[p].fullName, p)
         IN  [t1 EXCEPT !.next[prev] = Len(t1.key)]
    ELSE IF StrEq(t.key[cur], arr[p].fullName)
    THEN [t EXCEPT !.payload[cur] = Append(@, p)]
    ELSE HTinsertLoop(t, cur, t.next[cur], arr, p)

\* HTinsert counting a collision only when the chain gains an entry
HTinsertCountNewOnly(t, arr, p) ==
    LET idx == hashStr(arr[p].fullName, Len(t.table)) + 1
        cur == t.table[idx]
    IN  IF cur = NIL
        THEN LET t1 == HTNew(t, arr[p].fullName, p)
             IN  [t1 EXCEPT !.table[idx] = Len(t1.key)]
        ELSE LET t2 == HTinsertLoop(t, NIL, cur, arr, p)
             IN  IF Len(t2.key) > Len(t.key)
                 THEN [t2 EXCEPT !.collisions = @ + 1] ELSE t2

HTinsert(t, arr, p) ==
    LET idx == hashStr(arr[p].fullName, Len(t.table)) + 1
        cur == t.table[idx]
    IN  IF cur = NIL
        THEN LET t1 == HTNew(t, arr[p].fullName, p)
             IN  [t1 EXCEPT !.table[idx] = Len(t1.key)]
        ELSE HTinsertLoop([t EXCEPT !.collisions = @ + 1], NIL, cur, arr, p)

\* HTsearchFrom without the test of line 300
HTsearchFromFirst(t, cur, key) ==
    IF cur = NIL THEN << >> ELSE t.payload[cur]

RECURSIVE HTsearchFrom(_, _, _)
HTsearchFrom(t, cur, key) ==
    IF cur = NIL THEN << >>
    ELSE IF StrEq(t.key[cur], key) THEN t.payload[cur]
    ELSE HTsearchFrom(t, t.next[cur], key)

HTsearch(t, key) == HTsearchFrom(t, t.table[hashStr(key, Len(t.table)) + 1], key)

collisionCount(t) == t.collisions

\* =================================================================== clients
KeyIn(t, k) == \E n \in 1..Len(t.key) : t.key[n] = k

Passenger(name) == [fullName |-> name]

NoResult == [by |-> "none", key |-> << >>, res |-> << >>]

\* main's variables before main runs
MainIdle ==
    /\ mpc = "idle" /\ mit = 0 /\ mkey = << >> /\ mj = 0 /\ live = << >>
    /\ mp = << >> /\ rows = << >> /\ out = << >> /\ ret = "none"
    /\ csv = [state |-> "none", text |-> << >>]

mainVars == <<mpc, mit, mkey, mj, live, mp, rows, csv, out, ret>>

RECURSIVE SeqsUpTo(_, _)
SeqsUpTo(S, n) ==
    IF n = 0 THEN {<< >>}
    ELSE LET R == SeqsUpTo(S, n - 1)
         IN  R \cup {Append(q, x) : q \in {r \in R : Len(r) = n - 1}, x \in S}

\* ------------------------------------------------------------------------
\* The unit client: one dataset, then the three structures filled from it in
\* dataset order, the way the body of main's loop fills them (lines 408-417),
\* then searches for any key of the pool.
Init ==
    /\ data \in SeqsUpTo({Passenger(k) : k \in Keys}, MaxLen)
    /\ bst = EmptyBST
    /\ rbt = EmptyRBT
    /\ ht \in {HashTableNew(n) : n \in 1..MaxBuckets}
    /\ nb = 0 /\ nr = 0 /\ nh = 0
    /\ found = NoResult
    /\ rpc = "idle" /\ rz = NIL
    /\ MainIdle

BuildBST ==
    /\ nb < Len(data)
    /\ bst' = BSTinsert(bst, data, nb + 1)
    /\ nb' = nb + 1
    /\ UNCHANGED <<data, rbt, ht, nr, nh, found, rpc, rz, mainVars>>

BuildRBT ==
    /\ nb = Len(data) /\ nr < Len(data) /\ ~rbt.ub
    /\ rbt' = RBTinsert(rbt, data, nr + 1)
    /\ nr' = nr + 1
    /\ UNCHANGED <<data, bst, ht, nb, nh, found, rpc, rz, mainVars>>

BuildHT ==
    /\ nr = Len(data) /\ nh < Len(data)
    /\ ht' = HTinsert(ht, data, nh + 1)
    /\ nh' = nh + 1
    /\ UNCHANGED <<data, bst, rbt, nb, nr, found, rpc, rz, mainVars>>

Built == nb = Len(data) /\ nr = Len(data) /\ nh = Len(data)

SearchLinear(k) ==
    /\ Built
    /\ found' = [by |-> "linear", key |-> k, res |-> linearSearch(data, k)]
    /\ UNCHANGED <<data, bst, rbt, ht, nb, nr, nh, rpc, rz, mainVars>>

SearchBST(k) ==
    /\ Built
    /\ found' = [by |-> "bst", key |-> k, res |-> BSTsearch(bst, k)]
    /\ UNCHANGED <<data, bst, rbt, ht, nb, nr, nh, rpc, rz, mainVars>>

SearchRBT(k) ==
    /\ Built /\ ~rbt.ub
    /\ found' = [by |-> "rbt", key |-> k, res |-> RBTsearch(rbt, k)]
    /\ UNCHANGED <<data, bst, rbt, ht, nb, nr, nh, rpc, rz, mainVars>>

SearchHT(k) ==
    /\ Built
    /\ found' = [by |-> "hash", key |-> k, res |-> HTsearch(ht, k)]
    /\ UNCHANGED <<data, bst, rbt, ht, nb, nr, nh, rpc, rz, mainVars>>

Next ==
    \/ BuildBST
    \/ BuildRBT
    \/ BuildHT
    \/ \E k \in Keys : SearchLinear(k)
    \/ \E k \in Keys : SearchBST(k)
    \/ \E k \in Keys : SearchRBT(k)
    \/ \E k \in Keys : SearchHT(k)

Spec == Init /\ [][Next]_vars

\* ------------------------------------------------------------------------
\* The red-black client: RBTree::insert called with any record, one pass of
\* fixInsert's loop per step.
KeysRB == {KeyStr(i) : i \in 1..MaxKeyRB}

InitRB ==
    /\ data = << >>
    /\ bst = EmptyBST
    /\ rbt = EmptyRBT
    /\ ht = HashTableNew(0)
    /\ nb = 0 /\ nr = 0 /\ nh = 0
    /\ found = NoResult
    /\ rpc = "idle" /\ rz = NIL
    /\ MainIdle

\* RBTree::insert up to the call of fixInsert (lines 207-226), or the whole
\* call when the key is already there (lines 213-216)
RBInsertStep(k) ==
    /\ rpc = "idle"
    /\ data' = Append(data, Passenger(k))
    /\ nr' = nr + 1
    /\ LET p == Len(data) + 1
           d == RBTdescend(rbt, NIL, rbt.root, k)
       IN  IF d.hit
           THEN /\ rbt' = [rbt EXCEPT !.payload[d.y] = Append(@, p)]
                /\ UNCHANGED <<rpc, rz>>
           ELSE /\ rbt' = RBTlink(rbt, d.y, data', p)
                /\ rz' = Len(rbt.key) + 1
                /\ rpc' = "fix"
    /\ UNCHANGED <<bst, ht, nb, nh, found, mainVars>>

\* one pass of the while of fixInsert (lines 161-195)
RBFixPass ==
    /\ rpc = "fix" /\ fixCond(rbt, rz)
    /\ LET s == fixBody(rbt, rz)
       IN  /\ rbt' = s.t
           /\ rz' = s.z
           /\ rpc' = IF s.t.ub THEN "ub" ELSE "fix"
    /\ UNCHANGED <<data, bst, ht, nb, nr, nh, found, mainVars>>

\* the loop condition fails: line 196, and insert returns
RBFixReturn ==
    /\ rpc = "fix" /\ ~fixCond(rbt, rz)
    /\ rbt' = fixFinish(rbt)
    /\ rpc' = "idle"
    /\ UNCHANGED <<data, bst, ht, nb, nr, nh, found, rz, mainVars>>

RBInsertCall(k) == Len(data) < MaxIns /\ RBInsertStep(k)

NextRB ==
    \/ \E k \in KeysRB : RBInsertCall(k)
    \/ RBFixPass
    \/ RBFixReturn

SpecRB == InitRB /\ [][NextRB]_vars

\* ------------------------------------------------------------------------
\* The fresh-key client: RBTree::insert called with keys not yet in the tree,
\* in any order, until the pool is used up.  (A repeated key returns at line
\* 215 and never reaches fixInsert.)
KeysFresh == {KeyStr(i) : i \in 1..MaxFresh}

RBInsertFresh(k) == ~KeyIn(rbt, k) /\ RBInsertStep(k)

NextFresh ==
    \/ \E k \in KeysFresh : RBInsertFresh(k)
    \/ RBFixPass
    \/ RBFixReturn

SpecFresh == InitRB /\ [][NextFresh]_vars

\* ------------------------------------------------------------------------
\* The ascending client: unique keys in strictly ascending order.
\* Fixed-width names, so that the lexicographic order is the numeric one.
AscKey(i) == <<97 + (i \div 100), 97 + ((i \div 10) % 10), 97 + (i % 10)>>

AscInsert ==
    /\ Len(data) < MaxAsc /\ ~rbt.ub
    /\ data' = Append(data, Passenger(AscKey(Len(data) + 1)))
    /\ rbt' = RBTinsert(rbt, data', Len(data) + 1)
    /\ nr' = nr + 1
    /\ UNCHANGED <<bst, ht, nb, nh, found, rpc, rz, mainVars>>

NextAsc == AscInsert

SpecAsc == InitRB /\ [][NextAsc]_vars

\* ------------------------------------------------------------------------
\* main.  The loop of line 400 runs over the sizes 1 .. NumSizes instead of
\* the ten sizes 100 .. 1,000,000 of lines 392-395, and makeData draws the
\* names from a pool of MaxPool names instead of max(10, n/20) random ones.
\* The measured times are not modelled; a ResultRow keeps size and collisions.
sizes == [i \in 1..NumSizes |-> i]

makeData(n) == [1..n -> {Passenger(KeyStr(i)) : i \in 1..MaxPool}]

\* std::multimap::emplace: after the last element whose key is not greater
RECURSIVE MapEmplace(_, _)
MapEmplace(m, e) ==
    IF m = << >> THEN <<e>>
    ELSE IF StrLess(e.key, m[Len(m)].key)
         THEN Append(MapEmplace(SubSeq(m, 1, Len(m) - 1), e), m[Len(m)])
         ELSE Append(m, e)

\* std::multimap::equal_range, as the references in the range
MapEqualRange(m, key) ==
    LET hit == SelectSeq(m, LAMBDA e : StrEq(e.key, key))
    IN  [i \in 1..Len(hit) |-> hit[i].ref]

\* a local of the loop body comes to life
Construct(l, name, gen) == Append(l, [obj |-> name, gen |-> gen])

\* locals dying in the order of their construction
NextToDestroyOldest(l) == 1

\* scope exit: locals die in the reverse order of their construction
NextToDestroy(l) == Len(l)

\* operator<< on the file stream: nothing happens on a failed stream, and a
\* write on a good one either reaches the file or fails the stream
WriteOutcomes(c, line) ==
    IF c.state = "open"
    THEN {[c EXCEPT !.text = Append(@, line)], [c EXCEPT !.state = "failed"]}
    ELSE {c}

InitMain ==
    /\ data = << >>
    /\ bst = EmptyBST
    /\ rbt = EmptyRBT
    /\ ht = HashTableNew(0)
    /\ nb = 0 /\ nr = 0 /\ nh = 0
    /\ found = NoResult
    /\ rpc = "idle" /\ rz = NIL
    /\ mpc = "for" /\ mit = 0 /\ mkey = << >> /\ mj = 0 /\ live = << >>
    /\ mp = << >> /\ rows = << >> /\ out = << >> /\ ret = "none"
    /\ csv = [state |-> "none", text |-> << >>]

clientVars == <<nb, nr, nh, rpc, rz>>

\* lines 400-402
MLoopNext ==
    /\ mpc = "for" /\ mit < NumSizes
    /\ mit' = mit + 1
    /\ data' \in makeData(sizes[mit + 1])
    /\ live' = Construct(live, "data", mit + 1)
    /\ mpc' = "pick"
    /\ UNCHANGED <<bst, rbt, ht, found, mkey, mj, mp, rows, csv, out, ret, clientVars>>

\* lines 403-404
MPick ==
    /\ mpc = "pick"
    /\ \E j \in 1..Len(data) : mkey' = data[j].fullName
    /\ mpc' = "linear"
    /\ UNCHANGED <<data, bst, rbt, ht, found, mit, mj, live, mp, rows, csv, out, ret,
                   clientVars>>

\* line 406
MLinear ==
    /\ mpc = "linear"
    /\ found' = [by |-> "linear", key |-> mkey, res |-> linearSearch(data, mkey)]
    /\ mpc' = "bst"
    /\ UNCHANGED <<data, bst, rbt, ht, mit, mkey, mj, live, mp, rows, csv, out, ret,
                   clientVars>>

\* line 408
MNewBST ==
    /\ mpc = "bst"
    /\ bst' = EmptyBST
    /\ live' = Construct(live, "bst", mit)
    /\ mj' = 0
    /\ mpc' = "bstFill"
    /\ UNCHANGED <<data, rbt, ht, found, mit, mkey, mp, rows, csv, out, ret, clientVars>>

\* line 409, one record per step
MFillBST ==
    /\ mpc = "bstFill"
    /\ bst' = BSTinsert(bst, data, mj + 1)
    /\ mj' = mj + 1
    /\ mpc' = IF mj + 1 = Len(data) THEN "bstSearch" ELSE "bstFill"
    /\ UNCHANGED <<data, rbt, ht, found, mit, mkey, live, mp, rows, csv, out, ret,
                   clientVars>>

\* line 410
MSearchBST ==
    /\ mpc = "bstSearch"
    /\ found' = [by |-> "bst", key |-> mkey, res |-> BSTsearch(bst, mkey)]
    /\ mpc' = "rbt"
    /\ UNCHANGED <<data, bst, rbt, ht, mit, mkey, mj, live, mp, rows, csv, out, ret,
                   clientVars>>

\* line 412
MNewRBT ==
    /\ mpc = "rbt"
    /\ rbt' = EmptyRBT
    /\ live' = Construct(live, "rbt", mit)
    /\ mj' = 0
    /\ mpc' = "rbtFill"
    /\ UNCHANGED <<data, bst, ht, found, mit, mkey, mp, rows, csv, out, ret, clientVars>>

\* line 413, one record per step
MFillRBT ==
    /\ mpc = "rbtFill" /\ ~rbt.ub
    /\ rbt' = RBTinsert(rbt, data, mj + 1)
    /\ mj' = mj + 1
    /\ mpc' = IF mj + 1 = Len(data) THEN "rbtSearch" ELSE "rbtFill"
    /\ UNCHANGED <<data, bst, ht, found, mit, mkey, live, mp, rows, csv, out, ret,
                   clientVars>>

\* line 414
MSearchRBT ==
    /\ mpc = "rbtSearch" /\ ~rbt.ub
    /\ found' = [by |-> "rbt", key |-> mkey, res |-> RBTsearch(rbt, mkey)]
    /\ mpc' = "ht"
    /\ UNCHANGED <<data, bst, rbt, ht, mit, mkey, mj, live, mp, rows, csv, out, ret,
                   clientVars>>

\* line 416
MNewHT ==
    /\ mpc = "ht"
    /\ ht' = HashTableNew(Len(data) * 2 + 1)
    /\ live' = Construct(live, "ht", mit)
    /\ mj' = 0
    /\ mpc' = "htFill"
    /\ UNCHANGED <<data, bst, rbt, found, mit, mkey, mp, rows, csv, out, ret, clientVars>>

\* line 417, one record per step
MFillHT ==
    /\ mpc = "htFill"
    /\ ht' = HTinsert(ht, data, mj + 1)
    /\ mj' = mj + 1
    /\ mpc' = IF mj + 1 = Len(data) THEN "htSearch" ELSE "htFill"
    /\ UNCHANGED <<data, bst, rbt, found, mit, mkey, live, mp, rows, csv, out, ret,
                   clientVars>>

\* line 418
MSearchHT ==
    /\ mpc = "htSearch"
    /\ found' = [by |-> "hash", key |-> mkey, res |-> HTsearch(ht, mkey)]
    /\ mpc' = "mp"
    /\ UNCHANGED <<data, bst, rbt, ht, mit, mkey, mj, live, mp, rows, csv, out, ret,
                   clientVars>>

\* line 421
MNewMap ==
    /\ mpc = "mp"
    /\ mp' = << >>
    /\ live' = Construct(live, "mp", mit)
    /\ mj' = 0
    /\ mpc' = "mpFill"
    /\ UNCHANGED <<data, bst, rbt, ht, found, mit, mkey, rows, csv, out, ret, clientVars>>

\* line 422, one record per step
MFillMap ==
    /\ mpc = "mpFill"
    /\ mp' = MapEmplace(mp, [key |-> data[mj + 1].fullName, ref |-> mj + 1])
    /\ mj' = mj + 1
    /\ mpc' = IF mj + 1 = Len(data) THEN "mpSearch" ELSE "mpFill"
    /\ UNCHANGED <<data, bst, rbt, ht, found, mit, mkey, live, rows, csv, out, ret,
                   clientVars>>

\* line 423
MSearchMap ==
    /\ mpc = "mpSearch"
    /\ found' = [by |-> "multimap", key |-> mkey, res |-> MapEqualRange(mp, mkey)]
    /\ mpc' = "row"
    /\ UNCHANGED <<data, bst, rbt, ht, mit, mkey, mj, live, mp, rows, csv, out, ret,
                   clientVars>>

\* lines 419 and 425-426: the collision count read at 419 is the one the table
\* still has at 425
MRow ==
    /\ mpc = "row"
    /\ rows' = Append(rows, [size |-> Len(data), collisions |-> collisionCount(ht)])
    /\ out' = Append(out, [msg |-> "done", n |-> Len(data)])
    /\ mpc' = "exit"
    /\ UNCHANGED <<data, bst, rbt, ht, found, mit, mkey, mj, live, mp, csv, ret,
                   clientVars>>

\* line 427: the closing brace of the loop body destroys one local per step,
\* then control returns to the top of the loop
MDestroy ==
    /\ mpc = "exit" /\ live # << >>
    /\ LET i == NextToDestroy(live)
           o == live[i].obj
       IN  /\ live' = [j \in 1..Len(live) - 1 |-> IF j < i THEN live[j] ELSE live[j + 1]]
           /\ data' = IF o = "data" THEN << >> ELSE data
           /\ bst' = IF o = "bst" THEN EmptyBST ELSE bst
           /\ rbt' = IF o = "rbt" THEN EmptyRBT ELSE rbt
           /\ ht' = IF o = "ht" THEN HashTableNew(0) ELSE ht
           /\ mp' = IF o = "mp" THEN << >> ELSE mp
    /\ mpc' = IF Len(live) = 1 THEN "for" ELSE "exit"
    /\ UNCHANGED <<found, mit, mkey, mj, rows, csv, out, ret, clientVars>>

\* the loop is over; line 428 opens the file, or fails to
MOpen ==
    /\ mpc = "for" /\ mit = NumSizes
    /\ csv' \in {[state |-> "open", text |-> << >>], [state |-> "failed", text |-> << >>]}
    /\ mpc' = "header"
    /\ UNCHANGED <<data, bst, rbt, ht, found, mit, mkey, mj, live, mp, rows, out, ret,
                   clientVars>>

\* line 429
MHeader ==
    /\ mpc = "header"
    /\ csv' \in WriteOutcomes(csv, [size |-> 0, collisions |-> 0])
    /\ mj' = 0
    /\ mpc' = "rows"
    /\ UNCHANGED <<data, bst, rbt, ht, found, mit, mkey, live, mp, rows, out, ret,
                   clientVars>>

\* lines 430-434, one row per step
MWriteRow ==
    /\ mpc = "rows" /\ mj < Len(rows)
    /\ csv' \in WriteOutcomes(csv, rows[mj + 1])
    /\ mj' = mj + 1
    /\ UNCHANGED <<data, bst, rbt, ht, found, mpc, mit, mkey, live, mp, rows, out, ret,
                   clientVars>>

\* line 435
MSaved ==
    /\ mpc = "rows" /\ mj = Len(rows)
    /\ out' = Append(out, [msg |-> "saved", n |-> 0])
    /\ mpc' = "return"
    /\ UNCHANGED <<data, bst, rbt, ht, found, mit, mkey, mj, live, mp, rows, csv, ret,
                   clientVars>>

\* line 436: return 0; the stream's destructor closes the file
MReturn ==
    /\ mpc = "return"
    /\ ret' = 0
    /\ csv' = IF csv.state = "open" THEN [csv EXCEPT !.state = "closed"] ELSE csv
    /\ mpc' = "done"
    /\ UNCHANGED <<data, bst, rbt, ht, found, mit, mkey, mj, live, mp, rows, out,
                   clientVars>>

NextMain ==
    \/ MLoopNext \/ MPick \/ MLinear
    \/ MNewBST \/ MFillBST \/ MSearchBST
    \/ MNewRBT \/ MFillRBT \/ MSearchRBT
    \/ MNewHT \/ MFillHT \/ MSearchHT
    \/ MNewMap \/ MFillMap \/ MSearchMap
    \/ MRow \/ MDestroy
    \/ MOpen \/ MHeader \/ MWriteRow \/ MSaved \/ MReturn

SpecMain == InitMain /\ [][NextMain]_vars

\* ==================================================================== claims
Range(q) == {q[i] : i \in 1..Len(q)}

\* the names of the first n records of arr
NamesOf(arr, n) == {arr[i].fullName : i \in 1..n}

\* nodes of the subtree hanging from link n (a tree of m nodes is walked with
\* fuel m)
RECURSIVE Subtree(_, _, _)
Subtree(t, n, fuel) ==
    IF n = NIL \/ fuel = 0 THEN {}
    ELSE {n} \cup Subtree(t, t.left[n], fuel - 1) \cup Subtree(t, t.right[n], fuel - 1)

TreeNodes(t) == Subtree(t, t.root, Len(t.key))

\* (a) of the balanced-tree invariants
Ordered(t) ==
    \A n \in TreeNodes(t) :
        /\ \A m \in Subtree(t, t.left[n], Len(t.key)) : StrLess(t.key[m], t.key[n])
        /\ \A m \in Subtree(t, t.right[n], Len(t.key)) : StrLess(t.key[n], t.key[m])

\* (c)
RootBlack(t) == t.root # NIL => t.color[t.root] = BLACK

\* (d)
NoRedRed(t) ==
    \A n \in TreeNodes(t) :
        (t.color[n] = RED /\ t.parent[n] # NIL) => t.color[t.parent[n]] = BLACK

\* (e): the number of black nodes on every path from link n down to a null
\* link, or -1 when two such paths differ
RECURSIVE BlackHeight(_, _, _)
BlackHeight(t, n, fuel) ==
    IF n = NIL THEN 0
    ELSE IF fuel = 0 THEN -1
    ELSE LET l == BlackHeight(t, t.left[n], fuel - 1)
             r == BlackHeight(t, t.right[n], fuel - 1)
         IN  IF l = -1 \/ r = -1 \/ l # r THEN -1
             ELSE l + (IF t.color[n] = BLACK THEN 1 ELSE 0)

BlackBalanced(t) == BlackHeight(t, t.root, Len(t.key)) # -1

\* every allocated node hangs in the tree, under the parent its parent link names
Linked(t) ==
    /\ TreeNodes(t) = 1..Len(t.key)
    /\ t.root # NIL => t.parent[t.root] = NIL
    /\ \A n \in TreeNodes(t) :
        /\ t.left[n] # NIL => t.parent[t.left[n]] = n
        /\ t.right[n] # NIL => t.parent[t.right[n]] = n

\* C1: whenever RBTree::insert has returned, after any sequence of inserts
\* from the empty tree, the tree is ordered (left subtree keys < node key <
\* right subtree keys), its root is black, no red node has a red parent and
\* all paths from a node down to a null link hold the same number of black
\* nodes.
C1_RBInvariantsAfterInsert ==
    (rpc = "idle") =>
        /\ ~rbt.ub
        /\ Linked(rbt)
        /\ Ordered(rbt)
        /\ RootBlack(rbt)
        /\ NoRedRed(rbt)
        /\ BlackBalanced(rbt)

\* five fresh keys and a repeated one went in, and a rotation moved the root
C1_Witness ==
    /\ rpc = "idle"
    /\ Len(rbt.key) >= 5
    /\ Len(data) > Len(rbt.key)
    /\ rbt.root # 1
    /\ \E n \in 1..Len(rbt.key) : rbt.color[n] = RED

\* ------------------------------------------------------------------------
\* C8: RBTree::insert called with a key already in the tree leaves the set of
\* nodes, every colour, every parent/left/right link and the root as they
\* were; only the payload of the node with that key grows by the record.
C8_DuplicateInsertFrame ==
    [][\A k \in KeysRB :
         (RBInsertCall(k) /\ KeyIn(rbt, k)) =>
            /\ rpc' = "idle"
            /\ rbt'.root = rbt.root /\ rbt'.key = rbt.key
            /\ rbt'.color = rbt.color /\ rbt'.parent = rbt.parent
            /\ rbt'.left = rbt.left /\ rbt'.right = rbt.right
            /\ rbt'.ub = rbt.ub
            /\ \A n \in 1..Len(rbt.key) :
                 rbt'.payload[n] = IF rbt.key[n] = k
                                   THEN Append(rbt.payload[n], Len(data) + 1)
                                   ELSE rbt.payload[n]]_vars

\* a key went in three times, into a tree of at least three nodes in which
\* that key's node is red
C8_Witness ==
    /\ rpc = "idle"
    /\ Len(rbt.key) >= 3
    /\ \E n \in 1..Len(rbt.key) : Len(rbt.payload[n]) >= 3 /\ rbt.color[n] = RED

\* ------------------------------------------------------------------------
\* number of links from node n up to the root
RECURSIVE Depth(_, _, _)
Depth(t, n, fuel) ==
    IF t.parent[n] = NIL \/ fuel = 0 THEN 0 ELSE 1 + Depth(t, t.parent[n], fuel - 1)

\* C10: in fixInsert a red parent of z always has a parent, no rotation is
\* called on a node lacking the child it lifts (no null pointer is ever
\* dereferenced), a recolouring pass moves z two links up, and after a
\* rotating pass the loop condition is false, so the loop ends.
C10_FixupSafeAndTerminating ==
    /\ [](rpc # "ub" /\ ~rbt.ub)
    /\ []((rpc = "fix" /\ fixCond(rbt, rz)) => rbt.parent[rbt.parent[rz]] # NIL)
    /\ [][RBFixPass =>
            IF fixCase(rbt, rz) = "recolor"
            THEN /\ rz' = rbt.parent[rbt.parent[rz]]
                 /\ Depth(rbt', rz', Len(rbt.key)) = Depth(rbt, rz, Len(rbt.key)) - 2
            ELSE /\ fixCase(rbt, rz) = "rotate"
                 /\ rpc' = "fix" /\ ~fixCond(rbt', rz')]_vars

\* a pass of the loop begins at a z that an earlier recolouring pass moved up
C10_Witness ==
    /\ rpc = "fix"
    /\ rz # Len(rbt.key)
    /\ fixCond(rbt, rz)

\* ------------------------------------------------------------------------
\* nodes on the longest path from link n down to a leaf (0 for a null link)
RECURSIVE HeightNodes(_, _, _)
HeightNodes(t, n, fuel) ==
    IF n = NIL \/ fuel = 0 THEN 0
    ELSE 1 + Max(HeightNodes(t, t.left[n], fuel - 1), HeightNodes(t, t.right[n], fuel - 1))

\* the height: links on the longest root-to-leaf path
Height(t) == HeightNodes(t, t.root, Len(t.key)) - 1

RECURSIVE Pow2(_)
Pow2(n) == IF n <= 0 THEN 1 ELSE 2 * Pow2(n - 1)

\* C5 as stated: ascending inserts never give a chain, the height stays
\* logarithmic, and after 1023 ascending unique keys it is at most 12.
C5_AscendingHeightAtMost12 ==
    /\ Len(data) >= 3 => Height(rbt) < Len(data) - 1
    /\ Len(data) = 1023 => Height(rbt) <= 12

\* C5 as amended: after n ascending unique keys the tree is no chain and the
\* nodes on its longest path number at most 2*log2(n+1); after 1023 keys the
\* height is at most 17 links (18 nodes), and it is 17.
C5_AscendingHeightLogarithmic ==
    /\ Len(data) >= 3 => Height(rbt) < Len(data) - 1
    /\ Pow2(Height(rbt) + 1) <= (Len(data) + 1) * (Len(data) + 1)
    /\ Len(data) = 1023 => Height(rbt) = 17

C5_Witness ==
    /\ Len(data) = 1023
    /\ Len(rbt.key) = 1023
    /\ Height(rbt) > 12

\* ------------------------------------------------------------------------
Count(q, x) == Cardinality({i \in 1..Len(q) : q[i] = x})

SameBag(a, b) == \A x \in Range(a) \cup Range(b) : Count(a, x) = Count(b, x)

\* C2: once a dataset went, in dataset order, into a BST, an RBTree and a
\* HashTable of at least one bucket, the three searches for any key of the
\* dataset return the same multiset of record references, which is the
\* multiset of the records at the indices linearSearch returns.
C2_CrossStructureAgreement ==
    Built =>
        \A k \in NamesOf(data, Len(data)) :
            /\ SameBag(BSTsearch(bst, k), RBTsearch(rbt, k))
            /\ SameBag(RBTsearch(rbt, k), HTsearch(ht, k))
            /\ SameBag(HTsearch(ht, k), linearSearch(data, k))
            /\ linearSearch(data, k) # << >>

\* the hash table was searched for a key two records carry, in a dataset of
\* at least three names
C2_Witness ==
    /\ Built
    /\ Cardinality(NamesOf(data, Len(data))) >= 3
    /\ found.by = "hash"
    /\ Len(found.res) >= 2
    /\ SameBag(found.res, BSTsearch(bst, found.key))

\* ------------------------------------------------------------------------
\* the bucket HashTable::insert of record p looks at
BucketOf(t, name) == t.table[hashStr(name, Len(t.table)) + 1]

\* C3: collisionCount() starts at 0 and never decreases; an insert adds 1 to
\* it when its bucket was non-empty (also for a key the bucket already holds)
\* and 0 when the bucket was empty; a search leaves it alone.  With one
\* bucket, k >= 1 inserts (of distinct keys or of one key) give k - 1.
C3_CollisionCounting ==
    /\ [](nh = 0 => collisionCount(ht) = 0)
    /\ [][collisionCount(ht') >= collisionCount(ht)]_vars
    /\ [][BuildHT =>
            collisionCount(ht') = collisionCount(ht) +
                (IF BucketOf(ht, data[nh + 1].fullName) # NIL THEN 1 ELSE 0)]_vars
    /\ [][(\E k \in Keys : SearchHT(k)) => collisionCount(ht') = collisionCount(ht)]_vars
    /\ []((Len(ht.table) = 1 /\ nh >= 1) => collisionCount(ht) = nh - 1)

\* two buckets; the first two records share a key, and the second insert was
\* counted; a later insert found its bucket empty
C3_Witness ==
    /\ Len(ht.table) = 2
    /\ nh >= 3
    /\ data[1] = data[2]
    /\ collisionCount(ht) >= 1
    /\ collisionCount(ht) < nh - 1
    /\ found.by = "hash"

\* ------------------------------------------------------------------------
\* entries on the chain from link cur on
RECURSIVE Chain(_, _, _)
Chain(t, cur, fuel) ==
    IF cur = NIL \/ fuel = 0 THEN {} ELSE {cur} \cup Chain(t, t.next[cur], fuel - 1)

ChainNodes(t) ==
    UNION {Chain(t, t.table[b], Len(t.key)) : b \in 1..Len(t.table)}

\* the references to the first n records of arr that carry name, in order
RecordsWith(arr, n, name) ==
    SelectSeq([i \in 1..n |-> i], LAMBDA i : arr[i].fullName = name)

\* t holds, in the entries `nodes`, the first n records of arr: one entry per
\* distinct name, its payload all the records of that name in insertion order
HoldsExactly(t, nodes, arr, n) ==
    /\ nodes = 1..Len(t.key)
    /\ \A name \in NamesOf(arr, n) :
         Cardinality({m \in nodes : t.key[m] = name}) = 1
    /\ \A m \in nodes :
         /\ t.key[m] \in NamesOf(arr, n)
         /\ t.payload[m] = RecordsWith(arr, n, t.key[m])

\* C4: after any sequence of inserts each distinct key is held by exactly one
\* node (chain entry) of the BST, the RBTree and the HashTable, whose payload
\* is the list of all inserted records of that key in insertion order; so a
\* repeated key adds no node.
C4_EntryUniquenessAndPayload ==
    /\ HoldsExactly(bst, TreeNodes(bst), data, nb)
    /\ HoldsExactly(rbt, TreeNodes(rbt), data, nr)
    /\ HoldsExactly(ht, ChainNodes(ht), data, nh)

\* all three structures hold a dataset in which one name occurs three times
\* and another one at least once
C4_Witness ==
    /\ Built
    /\ Len(bst.key) >= 2 /\ Len(rbt.key) >= 2 /\ Len(ht.key) >= 2
    /\ \E m \in 1..Len(ht.key) : Len(ht.payload[m]) = 3
    /\ \E m \in 1..Len(bst.key) : Len(bst.payload[m]) = 3
    /\ \E m \in 1..Len(rbt.key) : Len(rbt.payload[m]) = 3

\* ------------------------------------------------------------------------
\* C7: whatever was inserted, a search for a key that was never inserted
\* returns an empty payload from the BST, the RBTree and the HashTable and an
\* empty index list from linearSearch; no search fails and no search changes
\* a structure.
C7_SearchMissIsEmpty ==
    /\ [](\A k \in Keys :
            /\ k \notin NamesOf(data, nb) => BSTsearch(bst, k) = << >>
            /\ k \notin NamesOf(data, nr) => RBTsearch(rbt, k) = << >>
            /\ k \notin NamesOf(data, nh) => HTsearch(ht, k) = << >>
            /\ k \notin NamesOf(data, Len(data)) => linearSearch(data, k) = << >>)
    /\ []((found.by # "none" /\ found.key \notin NamesOf(data, Len(data)))
            => found.res = << >>)
    /\ [](~rbt.ub)
    /\ [][found' # found => UNCHANGED <<data, bst, rbt, ht>>]_vars

\* the hash table was searched for a key that is in no record and whose
\* bucket holds an entry; the trees hold at least two nodes
C7_Witness ==
    /\ Built
    /\ found.by = "hash"
    /\ found.key \notin NamesOf(data, Len(data))
    /\ BucketOf(ht, found.key) # NIL
    /\ Len(bst.key) >= 2
    /\ found.res = << >>

\* ------------------------------------------------------------------------
Structures == {"bst", "rbt", "ht", "mp"}

\* C9: in every pass of main's loop the dataset is alive whenever a structure
\* built from it is (it is constructed first and destroyed last), and every
\* local of one size is destroyed before the dataset of the next size is
\* generated: no two live objects belong to different sizes.
C9_HarnessLifetimeOrdering ==
    /\ \A i \in 1..Len(live) :
         /\ live[i].gen = mit
         /\ live[i].obj \in Structures => (i > 1 /\ live[1].obj = "data")
    /\ mpc = "for" => live = << >>
    /\ (bst # EmptyBST \/ rbt # EmptyRBT \/ ht.key # << >> \/ mp # << >>)
          => (data # << >> /\ live # << >> /\ live[1].obj = "data")

\* in the second pass the four structures are gone and the dataset still lives
C9_Witness ==
    /\ mit = 2
    /\ mpc = "exit"
    /\ Len(live) = 1
    /\ live[1] = [obj |-> "data", gen |-> 2]
    /\ Len(rows) = 2

\* ------------------------------------------------------------------------
\* C6: when the result file cannot be created or written, main does not end
\* with the success status nor with the 'results saved' message.
C6_SinkFailureIsFatal ==
    (mpc = "done" /\ csv.state = "failed") =>
        /\ ret # 0
        /\ \A i \in 1..Len(out) : out[i].msg # "saved"

====
